---- MODULE Spec2Model ----
(***************************************************************************)
(* Model of the sentiment inference service (module3/milestone2/app/app.py):*)
(* the keyword classifier predict_sentiment and the three Flask handlers    *)
(* health, predict and root.                                                *)
(*                                                                          *)
(* A text is a sequence of characters; a character is a one-character       *)
(* string, except LongS, which stands for U+017F (LATIN SMALL LETTER LONG   *)
(* S), a lowercase letter whose uppercase form is "S".                      *)
(* A confidence is an integer number of hundredths (0.60 is 60).            *)
(***************************************************************************)
EXTENDS Integers, Sequences, FiniteSets, TLC

VARIABLES
    positive_words,   \* the module global POSITIVE_WORDS (a mutable Python set)
    negative_words,   \* the module global NEGATIVE_WORDS (a mutable Python set)
    reqs,             \* the HTTP requests: route, body, handler position, locals, response
    log,              \* the lines written to the module's logger, in order
    call              \* a direct call of predict_sentiment: its argument and its result

vars == <<positive_words, negative_words, reqs, log, call>>

----------------------------------------------------------------------------
(* Bounds of the model.                                                     *)

MaxReqs == 2      \* number of HTTP requests in one behaviour
MaxPos == 6       \* a generated text holds 0..MaxPos distinct positive words
MaxNeg == 6       \* a generated text holds 0..MaxNeg distinct negative words
MaxDup == 2       \* occurrences of a token appended to a text

----------------------------------------------------------------------------
(* Characters and strings.                                                  *)

RECURSIVE Str(_)
\* The text (sequence of characters) of a string literal.
Str(s) == IF Len(s) = 0 THEN <<>> ELSE <<SubSeq(s, 1, 1)>> \o Str(SubSeq(s, 2, Len(s)))

LongS == "U+017F"

UpperLetters == Str("ABCDEFGHIJKLMNOPQRSTUVWXYZ")
LowerLetters == Str("abcdefghijklmnopqrstuvwxyz")
AsciiLetters == {UpperLetters[i] : i \in 1..26} \cup {LowerLetters[i] : i \in 1..26}

\* str.isspace for one character.
Whitespace == {" ", "\t", "\n"}

LowerMap ==
    [c \in {UpperLetters[i] : i \in 1..26} |->
        LowerLetters[CHOOSE i \in 1..26 : UpperLetters[i] = c]]

UpperMap ==
    [c \in {LowerLetters[i] : i \in 1..26} |->
        UpperLetters[CHOOSE i \in 1..26 : LowerLetters[i] = c]]

\* str.lower for one character: A-Z map to a-z, everything else (LongS too) is kept.
lower_char(c) == IF c \in DOMAIN LowerMap THEN LowerMap[c] ELSE c

\* str.upper for one character: a-z map to A-Z, LongS maps to "S".
upper_char(c) ==
    IF c \in DOMAIN UpperMap THEN UpperMap[c] ELSE IF c = LongS THEN "S" ELSE c

\* Mutant of lower: .lower() dropped.
lower_dropped(text) == text

\* str.lower
lower(text) == [i \in 1..Len(text) |-> lower_char(text[i])]

\* Whether a token starts at or after position i of text.
has_token_from(text, i) == \E j \in i..Len(text) : text[j] \notin Whitespace

\* The position where the first token at or after position i starts: the
\* first non-whitespace character.
token_start(text, i) ==
    CHOOSE j \in i..Len(text) :
        /\ text[j] \notin Whitespace
        /\ \A k \in i..(j - 1) : text[k] \in Whitespace

\* The position where the token starting at i ends: the last character of the
\* run of non-whitespace characters from i.
token_end(text, i) ==
    CHOOSE j \in i..Len(text) :
        /\ \A k \in i..j : text[k] \notin Whitespace
        /\ j = Len(text) \/ text[j + 1] \in Whitespace

RECURSIVE split_from(_, _)
\* The tokens of text from position i on: skip whitespace, read a token, repeat.
split_from(text, i) ==
    IF ~has_token_from(text, i) THEN <<>>
    ELSE LET first == token_start(text, i)
             last == token_end(text, first)
         IN  <<SubSeq(text, first, last)>> \o split_from(text, last + 1)

\* str.split() with no argument: the maximal runs of non-whitespace
\* characters, in the order of the text.
split(text) == split_from(text, 1)

RECURSIVE lstrip(_)
lstrip(text) ==
    IF text # <<>> /\ Head(text) \in Whitespace THEN lstrip(Tail(text)) ELSE text

RECURSIVE rstrip(_)
rstrip(text) ==
    IF text # <<>> /\ text[Len(text)] \in Whitespace
    THEN rstrip(SubSeq(text, 1, Len(text) - 1))
    ELSE text

\* str.strip() with no argument.
strip(text) == rstrip(lstrip(text))

\* set(sequence)
set(seq) == {seq[i] : i \in 1..Len(seq)}

Min(a, b) == IF a <= b THEN a ELSE b

----------------------------------------------------------------------------
(* The lexicon.                                                             *)

PositiveOrder ==
    << Str("good"), Str("great"), Str("excellent"), Str("amazing"), Str("wonderful"),
       Str("fantastic"), Str("love"), Str("best"), Str("happy"), Str("awesome"),
       Str("brilliant"), Str("superb"), Str("enjoy"), Str("liked"), Str("perfect"),
       Str("recommend"), Str("outstanding"), Str("positive"), Str("pleasant") >>

NegativeOrder ==
    << Str("bad"), Str("terrible"), Str("awful"), Str("horrible"), Str("worst"),
       Str("hate"), Str("poor"), Str("disappointing"), Str("boring"), Str("ugly"),
       Str("negative"), Str("annoying"), Str("dislike"), Str("mediocre"), Str("fail"),
       Str("broken"), Str("useless"), Str("frustrating"), Str("dreadful") >>

POSITIVE_WORDS == set(PositiveOrder)
NEGATIVE_WORDS == set(NegativeOrder)

----------------------------------------------------------------------------
(* predict_sentiment.                                                       *)

\* words = set(text.lower().split())
words_of(text) == set(split(lower(text)))

\* Mutant of pos_count: set(...) dropped, every occurrence of a positive word counts.
pos_count_occurrences(text) ==
    LET tokens == split(lower(text))
    IN  Cardinality({i \in 1..Len(tokens) : tokens[i] \in positive_words})

\* pos_count = len(words & POSITIVE_WORDS)
pos_count(text) == Cardinality(words_of(text) \cap positive_words)

\* neg_count = len(words & NEGATIVE_WORDS)
neg_count(text) == Cardinality(words_of(text) \cap negative_words)

\* round(x, 2), x in thousandths, the result in hundredths.
round2(x) == (x + 5) \div 10

\* Mutant of confidence_of: min(...) dropped, the confidence is not capped.
confidence_of_uncapped(count) == 500 + 100 * count

\* min(0.5 + 0.1 * count, 0.99), in thousandths.
confidence_of(count) == Min(500 + 100 * count, 990)

\* Mutant of predict_sentiment: a tie is scored from the matched words instead
\* of the fixed 0.50.
predict_sentiment_tie_scored(text) ==
    LET pos == pos_count(text)
        neg == neg_count(text)
    IN  IF pos > neg
        THEN [label |-> "positive", confidence |-> round2(confidence_of(pos))]
        ELSE IF neg > pos
        THEN [label |-> "negative", confidence |-> round2(confidence_of(neg))]
        ELSE [label |-> "neutral", confidence |-> round2(confidence_of(pos))]

\* Mutant of predict_sentiment: >= for >, a tie is labelled positive.
predict_sentiment_ge(text) ==
    LET pos == pos_count(text)
        neg == neg_count(text)
    IN  IF pos >= neg
        THEN [label |-> "positive", confidence |-> round2(confidence_of(pos))]
        ELSE [label |-> "negative", confidence |-> round2(confidence_of(neg))]

predict_sentiment(text) ==
    LET pos == pos_count(text)
        neg == neg_count(text)
    IN  IF pos > neg
        THEN [label |-> "positive", confidence |-> round2(confidence_of(pos))]
        ELSE IF neg > pos
        THEN [label |-> "negative", confidence |-> round2(confidence_of(neg))]
        ELSE [label |-> "neutral", confidence |-> round2(500)]

----------------------------------------------------------------------------
(* JSON values and request bodies.                                          *)

None == [t |-> "None", v |-> 0]
JNull == [t |-> "null", v |-> 0]
JNum(n) == [t |-> "number", v |-> n]
JBool(b) == [t |-> "bool", v |-> b]
JStr(s) == [t |-> "string", v |-> Str(s)]
JArr(items) == [t |-> "array", v |-> items]
JObj(fields) == [t |-> "object", v |-> fields]

NoBody == [kind |-> "absent", value |-> JNull]         \* no body, or not sent as JSON
BadJson == [kind |-> "unparseable", value |-> JNull]   \* sent as JSON, not parseable
Json(value) == [kind |-> "json", value |-> value]

\* request.get_json(silent=True): None unless the body parses; JSON null is None.
get_json(body) ==
    IF body.kind # "json" \/ body.value.t = "null" THEN None ELSE body.value

\* needle in haystack, for two str.
is_substring(needle, haystack) ==
    \E i \in 1..(Len(haystack) - Len(needle) + 1) :
        SubSeq(haystack, i, i + Len(needle) - 1) = needle

\* `"text" in data` raises TypeError: an int, float or bool is not iterable.
in_raises(data) == data.t \in {"number", "bool"}

\* `"text" in data` where it does not raise: a key of a dict, an element of a
\* list, a substring of a str.
text_in(data) ==
    CASE data.t = "object" -> "text" \in DOMAIN data.v
      [] data.t = "array" ->
            \E i \in 1..Len(data.v) : data.v[i].t = "string" /\ data.v[i].v = Str("text")
      [] data.t = "string" -> is_substring(Str("text"), data.v)

\* `data["text"]` raises TypeError: list and str indices must be integers.
getitem_raises(data) == data.t \in {"array", "string"}

\* isinstance(text, str)
is_str(value) == value.t = "string"

----------------------------------------------------------------------------
(* The inputs: request bodies and generated texts.                          *)

\* ws[1] sep ws[2] sep ... ws[n]
RECURSIVE join(_, _)
join(ws, sep) ==
    IF ws = <<>> THEN <<>>
    ELSE IF Len(ws) = 1 THEN ws[1]
    ELSE ws[1] \o sep \o join(Tail(ws), sep)

\* str.upper
upper(text) == [i \in 1..Len(text) |-> upper_char(text[i])]

\* The first p positive and the first n negative words of the lexicon.
Picked(p, n) == SubSeq(PositiveOrder, 1, p) \o SubSeq(NegativeOrder, 1, n)

\* Tokens that are in neither set: ordinary words, near misses of lexicon
\* words, a word spelt with LongS, and two occurrences of a lexicon word.
Extras ==
    { <<>>,
      <<Str("the"), Str("sky")>>,
      <<Str("great!"), Str("goodbad")>>,
      <<<<"b", "e", LongS, "t">>>>,
      <<Str("good"), Str("Good")>>,
      <<Str("bad"), Str("bad")>> }

Styles == {"plain", "upper", "padded"}

Render(ws, style) ==
    CASE style = "plain" -> join(ws, Str(" "))
      [] style = "upper" -> upper(join(ws, Str(" ")))
      [] style = "padded" -> Str(" \t") \o join(ws, Str("\n ")) \o Str(" \n")

TextInputs ==
    { Render(Picked(p, n) \o e, style) :
        p \in 0..MaxPos, n \in 0..MaxNeg, e \in Extras, style \in Styles }

Bodies ==
    { NoBody, BadJson,
      Json(JNull), Json(JNum(5)), Json(JBool(TRUE)),
      Json(JStr("hello")), Json(JStr("some text")),
      Json(JArr(<<>>)), Json(JArr(<<JStr("text")>>)),
      Json(JObj(<<>>)),
      Json(JObj([wrong_key |-> JStr("hello")])),
      Json(JObj([text |-> JNum(12345)])),
      Json(JObj([text |-> JNull])),
      Json(JObj([text |-> JArr(<<JStr("good")>>)])),
      Json(JObj([text |-> JStr("")])),
      Json(JObj([text |-> JStr("   ")])),
      Json(JObj([text |-> JStr(" \t\n")])),
      Json(JObj([text |-> JStr("The sky is blue today")])),
      Json(JObj([text |-> JStr("This movie is great and amazing")])),
      Json(JObj([text |-> JStr("This movie is terrible and awful")])),
      Json(JObj([text |-> JStr("  GREAT\tgreat bad good \n")])),
      Json(JObj([text |-> JStr("good")])),
      Json(JObj([text |-> JStr("good"), other |-> JNum(1)])) }

Routes == {"/health", "/predict", "/"}

Reqs == 1..MaxReqs

----------------------------------------------------------------------------
(* The state machine.                                                       *)

Idle ==
    [pc |-> "idle", route |-> "", body |-> NoBody, data |-> None, text |-> <<>>,
     result |-> [label |-> "", confidence |-> 0], status |-> 0,
     payload |-> [none |-> TRUE]]

NoCall == [pc |-> "off", text |-> <<>>, result |-> [label |-> "", confidence |-> 0]]

\* The state after import: the lexicon is built, no request has arrived.
InitServer ==
    /\ positive_words = POSITIVE_WORDS
    /\ negative_words = NEGATIVE_WORDS
    /\ reqs = [r \in Reqs |-> Idle]
    /\ log = <<>>

Init ==
    /\ InitServer
    /\ call = NoCall

\* A response leaves the handler: return jsonify(payload), status.
respond(r, status, payload) ==
    reqs' = [reqs EXCEPT ![r].pc = "done", ![r].status = status, ![r].payload = payload]

\* An exception leaves the handler: Flask answers 500 Internal Server Error.
raise(r) == respond(r, 500, [html |-> "Internal Server Error"])

\* A request arrives and is routed to its handler.
Arrive(r) ==
    /\ reqs[r].pc = "idle"
    /\ \E route \in Routes :
         \E body \in (IF route = "/predict" THEN Bodies ELSE {NoBody}) :
            reqs' = [reqs EXCEPT ![r].pc = "handler", ![r].route = route, ![r].body = body]
    /\ UNCHANGED <<positive_words, negative_words, log, call>>

health(r) ==
    /\ reqs[r].pc = "handler" /\ reqs[r].route = "/health"
    /\ respond(r, 200, [status |-> "healthy"])
    /\ UNCHANGED <<positive_words, negative_words, log, call>>

root(r) ==
    /\ reqs[r].pc = "handler" /\ reqs[r].route = "/"
    /\ respond(r, 200,
               [service |-> "ML Sentiment Inference API", version |-> "1.0.0",
                endpoints |-> {"/health", "/predict"}])
    /\ UNCHANGED <<positive_words, negative_words, log, call>>

\* data = request.get_json(silent=True)
\* if data is None or "text" not in data: warn, return 400
predict_check_field(r) ==
    /\ reqs[r].pc = "handler" /\ reqs[r].route = "/predict"
    /\ LET data == get_json(reqs[r].body) IN
         IF data # None /\ in_raises(data)
         THEN raise(r) /\ UNCHANGED log
         ELSE IF data = None \/ ~text_in(data)
         THEN /\ log' = Append(log, [level |-> "warning", req |-> r,
                                     msg |-> "Bad request: missing 'text' field",
                                     args |-> <<>>])
              /\ respond(r, 400, [error |-> "Request must include a 'text' field"])
         ELSE /\ reqs' = [reqs EXCEPT ![r].pc = "check_text", ![r].data = data]
              /\ UNCHANGED log
    /\ UNCHANGED <<positive_words, negative_words, call>>

\* Mutant of predict_check_text: the emptiness check compares the stripped text
\* with the text, so a text with surrounding whitespace is refused.
predict_check_text_strict(r) ==
    /\ reqs[r].pc = "check_text"
    /\ LET data == reqs[r].data IN
         IF getitem_raises(data)
         THEN raise(r)
         ELSE LET text == data.v["text"] IN
              IF ~is_str(text) \/ Len(strip(text.v)) = 0 \/ strip(text.v) # text.v
              THEN respond(r, 400, [error |-> "'text' must be a non-empty string"])
              ELSE reqs' = [reqs EXCEPT ![r].pc = "classify", ![r].text = text.v]
    /\ UNCHANGED <<positive_words, negative_words, log, call>>

\* text = data["text"]; if not isinstance(text, str) or len(text.strip()) == 0: return 400
predict_check_text(r) ==
    /\ reqs[r].pc = "check_text"
    /\ LET data == reqs[r].data IN
         IF getitem_raises(data)
         THEN raise(r)
         ELSE LET text == data.v["text"] IN
              IF ~is_str(text) \/ Len(strip(text.v)) = 0
              THEN respond(r, 400, [error |-> "'text' must be a non-empty string"])
              ELSE reqs' = [reqs EXCEPT ![r].pc = "classify", ![r].text = text.v]
    /\ UNCHANGED <<positive_words, negative_words, log, call>>

\* Mutant of predict_classify: the classifier learns, the words of a classified
\* text join POSITIVE_WORDS.
predict_classify_learning(r) ==
    /\ reqs[r].pc = "classify"
    /\ reqs' = [reqs EXCEPT ![r].pc = "respond",
                            ![r].result = predict_sentiment(reqs[r].text)]
    /\ positive_words' = positive_words \cup words_of(reqs[r].text)
    /\ UNCHANGED <<negative_words, log, call>>

\* result = predict_sentiment(text)
predict_classify(r) ==
    /\ reqs[r].pc = "classify"
    /\ reqs' = [reqs EXCEPT ![r].pc = "respond",
                            ![r].result = predict_sentiment(reqs[r].text)]
    /\ UNCHANGED <<positive_words, negative_words, log, call>>

\* logger.info(...); return jsonify(result), 200
predict_respond(r) ==
    /\ reqs[r].pc = "respond"
    /\ log' = Append(log, [level |-> "info", req |-> r,
                           msg |-> "Prediction: %s (confidence=%.2f)",
                           args |-> <<reqs[r].result.label, reqs[r].result.confidence>>])
    /\ respond(r, 200, reqs[r].result)
    /\ UNCHANGED <<positive_words, negative_words, call>>

Next ==
    \E r \in Reqs :
        \/ Arrive(r)
        \/ health(r)
        \/ root(r)
        \/ predict_check_field(r)
        \/ predict_check_text(r)
        \/ predict_classify(r)
        \/ predict_respond(r)

Spec == Init /\ [][Next]_vars

----------------------------------------------------------------------------
(* Direct calls of predict_sentiment, as the unit tests make them.          *)

InitCall ==
    /\ InitServer
    /\ \E text \in TextInputs :
         call = [pc |-> "called", text |-> text, result |-> [label |-> "", confidence |-> 0]]

\* predict_sentiment(text) returns.
Return ==
    /\ call.pc = "called"
    /\ call' = [call EXCEPT !.pc = "returned", !.result = predict_sentiment(call.text)]
    /\ UNCHANGED <<positive_words, negative_words, reqs, log>>

NextCall == Return

SpecCall == InitCall /\ [][NextCall]_vars

----------------------------------------------------------------------------
(* Properties of predict_sentiment, checked under SpecCall.                 *)

Returned == call.pc = "returned"

\* C3: every result of predict_sentiment has a confidence between 0.50 and
\* 0.99 inclusive, whatever the numbers of positive and negative words.
C3_ConfidenceInRange ==
    Returned => 50 <= call.result.confidence /\ call.result.confidence <= 99

\* A text with six positive words was classified and got the capped confidence.
C3_Witness ==
    /\ Returned
    /\ pos_count(call.text) >= 6
    /\ call.result.confidence = 99

\* C4: the result is labelled neutral if and only if its confidence is 0.50.
C4_NeutralIffHalf ==
    Returned => (call.result.label = "neutral" <=> call.result.confidence = 50)

\* A tie with matched words on both sides was classified neutral with 0.50.
C4_Witness ==
    /\ Returned
    /\ pos_count(call.text) = 2 /\ neg_count(call.text) = 2
    /\ call.result = [label |-> "neutral", confidence |-> 50]

\* C5: the strict decision rule on posCount and negCount: the larger count
\* names the label and alone sets the confidence min(0.50 + 0.10 * count,
\* 0.99); equal counts give neutral with 0.50; the cap is reached exactly
\* when the winning count is 5 or more.
C5_DecisionRule ==
    Returned =>
        LET pos == pos_count(call.text)
            neg == neg_count(call.text)
            res == call.result
        IN  /\ pos > neg => res = [label |-> "positive", confidence |-> Min(50 + 10 * pos, 99)]
            /\ neg > pos => res = [label |-> "negative", confidence |-> Min(50 + 10 * neg, 99)]
            /\ pos = neg => res = [label |-> "neutral", confidence |-> 50]
            /\ pos > neg => (res.confidence = 99 <=> pos >= 5)
            /\ neg > pos => (res.confidence = 99 <=> neg >= 5)

\* Five negative words beat four positive ones and reach the cap.
C5_Witness ==
    /\ Returned
    /\ pos_count(call.text) = 4 /\ neg_count(call.text) = 5
    /\ call.result = [label |-> "negative", confidence |-> 99]

\* text followed by k further occurrences of the token tok.
RECURSIVE appended(_, _, _)
appended(text, tok, k) ==
    IF k = 0 THEN text ELSE appended(text \o <<" ">> \o tok, tok, k - 1)

\* C6: appending further occurrences of a token the text already contains
\* leaves posCount, negCount, the label and the confidence unchanged.
C6_DuplicatesDoNotInflate ==
    Returned =>
        LET pos == pos_count(call.text)
            neg == neg_count(call.text)
        IN  \A tok \in set(split(call.text)) \cup words_of(call.text) :
                \A k \in 1..MaxDup :
                    LET more == appended(call.text, tok, k)
                    IN  /\ pos_count(more) = pos
                        /\ neg_count(more) = neg
                        /\ predict_sentiment(more) = call.result

\* "good" was classified, and "good good good" gets the same positive 0.60.
C6_Witness ==
    /\ Returned
    /\ call.text = Str("good")
    /\ call.result = [label |-> "positive", confidence |-> 60]
    /\ appended(call.text, Str("good"), 2) = Str("good good good")
    /\ predict_sentiment(Str("good good good")) = call.result

\* str.swapcase for one character.
swapcase_char(c) == IF lower_char(c) # c THEN lower_char(c) ELSE upper_char(c)

\* text with the case of the character at position i changed.
case_changed_at(text, i) == [text EXCEPT ![i] = swapcase_char(text[i])]

\* text with the case of every ASCII letter changed.
ascii_swapcase(text) ==
    [i \in 1..Len(text) |->
        IF text[i] \in AsciiLetters THEN swapcase_char(text[i]) ELSE text[i]]

\* C7 as stated: changing the case of any letter of the text leaves the
\* result of predict_sentiment unchanged.
C7_CaseOfAnyLetter ==
    Returned =>
        \A i \in 1..Len(call.text) :
            predict_sentiment(case_changed_at(call.text, i)) = call.result

\* C7 as amended: changing the case of ASCII letters of the text, one or all
\* of them, leaves the result unchanged; every lexicon word is lowercase and
\* the two sets are disjoint.
C7_CaseOfAsciiLetters ==
    /\ \A w \in positive_words \cup negative_words : lower(w) = w
    /\ positive_words \cap negative_words = {}
    /\ Returned =>
          /\ \A i \in 1..Len(call.text) :
                call.text[i] \in AsciiLetters =>
                    predict_sentiment(case_changed_at(call.text, i)) = call.result
          /\ predict_sentiment(ascii_swapcase(call.text)) = call.result

\* "GOOD GREAT" was classified positive, as "good great" is.
C7_Witness ==
    /\ Returned
    /\ call.text = upper(Str("good great"))
    /\ call.text # Str("good great")
    /\ call.result = [label |-> "positive", confidence |-> 70]

----------------------------------------------------------------------------
(* Properties of the handlers, checked under Spec.                          *)

Done(r) == reqs[r].pc = "done"
Predicted(r) == Done(r) /\ reqs[r].route = "/predict"

\* The body is a JSON object with a `text` key.
HasTextKey(body) ==
    /\ body.kind = "json"
    /\ body.value.t = "object"
    /\ "text" \in DOMAIN body.value.v

\* The body passes the validation of the spec: `text` is a string that is
\* not empty after trimming.
ValidBody(body) ==
    /\ HasTextKey(body)
    /\ body.value.v["text"].t = "string"
    /\ strip(body.value.v["text"].v) # <<>>

IsError(r, message) ==
    /\ reqs[r].status = 400
    /\ DOMAIN reqs[r].payload = {"error"}
    /\ reqs[r].payload.error = message

\* C1: every POST /predict request, whatever its body, ends with status 200
\* and an object holding label and confidence, or with status 400 and an
\* object holding error.
C1_Only200Or400 ==
    \A r \in Reqs :
        Predicted(r) =>
            \/ reqs[r].status = 200 /\ DOMAIN reqs[r].payload = {"label", "confidence"}
            \/ reqs[r].status = 400 /\ DOMAIN reqs[r].payload = {"error"}

\* C2: a body that is absent, unparseable or without a `text` key gets the
\* missing-field error; a `text` that is no string or is blank gets the
\* non-empty-string error; every other request passes validation.
C2_ValidationOrder ==
    \A r \in Reqs :
        Predicted(r) =>
            IF ~HasTextKey(reqs[r].body)
            THEN IsError(r, "Request must include a 'text' field")
            ELSE IF ~ValidBody(reqs[r].body)
            THEN IsError(r, "'text' must be a non-empty string")
            ELSE reqs[r].status = 200

\* The log lines request r emitted.
LinesOf(r) == SelectSeq(log, LAMBDA line : line.req = r)

\* C8: a request that fails validation emits exactly one warning line, a
\* successful one exactly one info line carrying label and confidence.
C8_OneLogLine ==
    \A r \in Reqs :
        Predicted(r) =>
            /\ reqs[r].status = 400 =>
                  Len(LinesOf(r)) = 1 /\ LinesOf(r)[1].level = "warning"
            /\ reqs[r].status = 200 =>
                  /\ Len(LinesOf(r)) = 1
                  /\ LinesOf(r)[1].level = "info"
                  /\ LinesOf(r)[1].args =
                        <<reqs[r].payload.label, reqs[r].payload.confidence>>

\* C9: the lexicon is never modified, and two requests with the same route and
\* body, or with the same valid text, get the same response, whatever was
\* handled before or at the same time.
C9_Independent ==
    /\ positive_words = POSITIVE_WORDS
    /\ negative_words = NEGATIVE_WORDS
    /\ \A r1, r2 \in Reqs :
          Done(r1) /\ Done(r2) /\ reqs[r1].route = reqs[r2].route =>
             /\ reqs[r1].body = reqs[r2].body =>
                   /\ reqs[r1].status = reqs[r2].status
                   /\ reqs[r1].payload = reqs[r2].payload
             /\ /\ ValidBody(reqs[r1].body) /\ ValidBody(reqs[r2].body)
                /\ reqs[r1].body.value.v["text"] = reqs[r2].body.value.v["text"]
                => reqs[r1].payload = reqs[r2].payload

\* Two requests with the same text in different bodies were both answered.
C9_Witness ==
    /\ Done(1) /\ Done(2)
    /\ reqs[1].body = Json(JObj([text |-> JStr("good")]))
    /\ reqs[2].body = Json(JObj([text |-> JStr("good"), other |-> JNum(1)]))
    /\ reqs[1].payload = [label |-> "positive", confidence |-> 60]
    /\ reqs[2].payload = reqs[1].payload
    /\ Len(log) = 2 /\ log[1].req = 2

\* C10: a request that passes validation has the classifier called with the
\* raw text and is answered 200 with the result of predict_sentiment for it,
\* which is also the result for the trimmed text.
C10_ValidRequest ==
    \A r \in Reqs :
        Predicted(r) /\ ValidBody(reqs[r].body) =>
            LET raw == reqs[r].body.value.v["text"].v
            IN  /\ reqs[r].text = raw
                /\ reqs[r].status = 200
                /\ reqs[r].payload = predict_sentiment(raw)
                /\ reqs[r].payload = predict_sentiment(strip(raw))

\* A text with surrounding whitespace was answered 200 with the result of
\* its trimmed form.
C10_Witness ==
    \E r \in Reqs :
        /\ Predicted(r)
        /\ reqs[r].text = Str("  GREAT\tgreat bad good \n")
        /\ strip(reqs[r].text) = Str("GREAT\tgreat bad good")
        /\ reqs[r].status = 200
        /\ reqs[r].payload = [label |-> "positive", confidence |-> 70]

====
